---- MODULE Spec2Model ----
(***************************************************************************)
(* A model of rutils (src/rutils/__init__.py): the scoped transactional    *)
(* session of ProjectWorker, the handler wiring of setup_logging, the      *)
(* environment override merge of conf_update_from_env, the discovery of    *)
(* the project home, load_config, JsonFormatter.format, and the timestamp  *)
(* conversions get_date and date2solrstamp.                                *)
(***************************************************************************)
EXTENDS Integers, Sequences, FiniteSets, TLC

(***************************************************************************)
(* Bounds of the model.                                                    *)
(***************************************************************************)
\* number of threads that share one ProjectWorker
NThreads == 2
\* a row of the backing store holds a value 1..MaxVal; 0 stands for "no row"
MaxVal == 2

\* setup_logging is called at most MaxSetups times for one logger name
MaxSetups == 2
\* processes that log to one file, and the records each of them emits
NProcs == 2
MaxRecords == 3
\* a record reaches the file in NParts successive writes
NParts == 2
\* the file is rotated when it cannot take one more record beyond RotateRecords
\* (the size threshold, in records)
RotateRecords == 2
\* at most MaxEnvSet environment variables are set
MaxEnvSet == 2

Threads == 1..NThreads
Vals == 1..MaxVal

(***************************************************************************)
(* Exceptions.  An exception object is a record; two records are the same  *)
(* object exactly when they are equal (origin tells who created it).       *)
(* base is the root of its class: "Exception" for ordinary errors,         *)
(* "BaseException" for SystemExit, KeyboardInterrupt and the like.         *)
(***************************************************************************)
NoExc == [name |-> "None", base |-> "None", origin |-> "None"]

\* what the body of a scope may raise: an ordinary error, or sys.exit()
BodyExcs ==
  { [name |-> "ValueError", base |-> "Exception", origin |-> "body"],
    [name |-> "SystemExit", base |-> "BaseException", origin |-> "body"] }

\* what s.commit() raises when the flush fails
CommitExc == [name |-> "IntegrityError", base |-> "Exception", origin |-> "commit"]

\* raise Exception("DB not initialized properly, check: SQLALCHEMY_URL")
DbNotInitializedMsg ==
  <<"DB", "not", "initialized", "properly,", "check:", "SQLALCHEMY_URL">>
DbNotInitialized == [name |-> "Exception", base |-> "Exception", origin |-> "db_session"]

\* the exception message carried by an exception object ("" words for the others)
ExcMessage(e) == IF e = DbNotInitialized THEN DbNotInitializedMsg ELSE <<>>

\* "except Exception as e" matches e
CaughtByExceptException(e) == e.base = "Exception"

(***************************************************************************)
(* State.  Every thread runs db_session scopes on the one shared worker.   *)
(* The record of what a scope did (calls .. dirty) is kept for the scopes  *)
(* of one thread, Main; the other threads run the same code beside it.     *)
(***************************************************************************)
VARIABLES
  SQLALCHEMY_URL,  \* the configured value: "None", "" or a url
  _session,        \* self._session: "None" or "scoped_session"
  registry,        \* the scoped_session registry: thread -> session id, 0 = none yet
  store,           \* committed rows of the engine: row -> 0..MaxVal (row t is thread t's)
  pending,         \* session id -> row -> uncommitted value written, 0 = none
  pc,              \* thread -> "idle" (no scope yet), "body" (inside a scope), "exited"
  s,               \* thread -> the local s of db_session (a session id, 0 = unbound)
  calls,           \* Main's scope: the session calls db_session itself made, in order
  raised,          \* Main's scope: the exception delivered to the caller (NoExc if none)
  bodyRaised,      \* Main's scope: the exception the body raised (NoExc if none)
  entry,           \* Main's scope: committed value of Main's row at entry
  lastCommitted,   \* Main's scope: that value as of the body's latest own commit
  dirty            \* Main's scope: the body had uncommitted work when it stopped

dbVars == <<SQLALCHEMY_URL, _session, registry, store, pending, pc, s, calls,
            raised, bodyRaised, entry, lastCommitted, dirty>>

\* The logging module's registry of named loggers, and the project's logs directory.
VARIABLES
  handlers,        \* logger name -> logger.handlers, a sequence of handler objects
  level,           \* logger name -> logger.level (0 = NOTSET)
  propagate,       \* logger name -> logger.propagate
  logsDir,         \* whether <project home>/logs exists
  setups           \* logger name -> number of setup_logging calls made for it

logVars == <<handlers, level, propagate, logsDir, setups>>

\* Processes emitting records through the file handler setup_logging built.
VARIABLES
  lock,            \* the process holding the handler's inter-process lock, 0 = free
  wpc,             \* process -> "idle", "rollover", "write" or "release"
  part,            \* process -> the part of its record it writes next
  written,         \* process -> records it has emitted
  file,            \* the log file: the parts written, in order
  backups          \* the rotated files, newest first

writeVars == <<lock, wpc, part, written, file, backups>>

\* conf_update_from_env(app_name, conf) and the process environment.
VARIABLES
  app_name,        \* the app_name argument, a sequence of characters
  environ,         \* os.environ: variable name -> value, both sequences of characters
  conf,            \* the config map: key -> Python value
  envpc            \* "start" before the call, "done" after it

envVars == <<app_name, environ, conf, envpc>>

\* The file system, the working directory and the call stack that root
\* discovery and load_config read; sys.path and what the last call did.
VARIABLES
  fs,              \* existing path -> "dir", or a file's content (a sequence of bindings)
  cwd,             \* os.getcwd()
  callers,         \* source files of the frames that called into rutils, innermost first
  sys_path,        \* sys.path
  cfgpc,           \* number of calls made so far
  ret,             \* what the last call returned (NoRet when it raised or none was made)
  exc,             \* the exception the last call raised ("None" if none)
  stderr,          \* what the last call wrote to sys.stderr, in order
  args,            \* the arguments of the last call
  trace            \* what the last call did, in order: files opened, sys.path at entry

cfgVars == <<fs, cwd, callers, sys_path, cfgpc, ret, exc, stderr, args, trace>>

\* A log record on its way through JsonFormatter.format.
VARIABLES
  record,          \* the LogRecord: levelname, msg, exc_info
  record0,         \* the record as it was before the call
  use_color,       \* the formatter's use_color
  fmtRet,          \* the string format returned (<<>> when it raised)
  fmtExc,          \* the exception format let out ("None" if none)
  fmtStep,         \* what the color step and the plain format did in the call
  fmtpc            \* "start" before the call, "done" after it

fmtVars == <<record, record0, use_color, fmtRet, fmtExc, fmtStep, fmtpc>>

\* A call of get_date followed by date2solrstamp.
VARIABLES
  timestr,         \* the argument of get_date
  date,            \* the datetime get_date returned
  stamp,           \* the text date2solrstamp returned
  datepc           \* "start", "parsed" after get_date, "stamped" after date2solrstamp

dateVars == <<timestr, date, stamp, datepc>>

vars == <<dbVars, logVars, writeVars, envVars, cfgVars, fmtVars, dateVars>>

Main == CHOOSE t \in Threads : \A u \in Threads : t <= u
SessionIds == 1..NThreads
NoPending == [r \in Threads |-> 0]

\* the new value of a part of Main's record after a step of thread t
Rec(t, new, old) == IF t = Main THEN new ELSE old

(***************************************************************************)
(* The session (sqlalchemy.orm.Session) as db_session and its body use it: *)
(* each call maps the committed rows st and the session's pending work p   *)
(* to the rows and the pending work after the call.                        *)
(***************************************************************************)
\* what a query through a session with pending work p sees of committed rows st
View(st, p) == [r \in Threads |-> IF p[r] # 0 THEN p[r] ELSE st[r]]

SessionCommit(st, p) == [store |-> View(st, p), pending |-> NoPending]
SessionRollback(st, p) == [store |-> st, pending |-> NoPending]
SessionClose(st, p) == [store |-> st, pending |-> NoPending]

\* (mutant) one session handed to every thread, as a plain sessionmaker() call
\* stored once in __init__ would
SharedSessionCall(t) == Main

\* scoped_session.__call__: the session in the calling thread's slot of the
\* thread-local registry, created on first use (a session is named after the
\* thread whose slot it was created in)
ScopedSessionCall(t) == IF registry[t] # 0 THEN registry[t] ELSE t

\* ProjectWorker.__init__: a backend is set up only for a truthy SQLALCHEMY_URL
InitSession(url) == IF url \in {"None", ""} THEN "None" ELSE "scoped_session"

DbInit ==
  /\ SQLALCHEMY_URL \in {"None", "", "sqlite:///"}
  /\ _session = InitSession(SQLALCHEMY_URL)
  /\ registry = [t \in Threads |-> 0]
  /\ store = [r \in Threads |-> 0]
  /\ pending = [i \in SessionIds |-> NoPending]
  /\ pc = [t \in Threads |-> "idle"]
  /\ s = [t \in Threads |-> 0]
  /\ calls = <<>>
  /\ raised = NoExc
  /\ bodyRaised = NoExc
  /\ entry = 0
  /\ lastCommitted = 0
  /\ dirty = FALSE

(***************************************************************************)
(* ProjectWorker.close_app                                                 *)
(***************************************************************************)
close_app ==
  /\ _session # "None"
  /\ _session' = "None"
  /\ UNCHANGED <<SQLALCHEMY_URL, registry, store, pending, pc, s, calls,
                 raised, bodyRaised, entry, lastCommitted, dirty>>

(***************************************************************************)
(* ProjectWorker.db_session for thread t.  The code before the yield is    *)
(* one step; the body's statements are steps of their own; the code after  *)
(* the yield (commit, except clause, finally clause) is one step: it works *)
(* on the thread's own session and on the store alone.                     *)
(***************************************************************************)
Outside(t) == pc[t] \in {"idle", "exited"}

\* (mutant) the check of self._session left out
SessionNeverMissing == FALSE

\* "if self._session is None"
SessionMissing == _session = "None"

\* "raise Exception(...)" before any session is obtained
EnterUnconfigured(t) ==
  /\ Outside(t)
  /\ SessionMissing
  /\ pc' = [pc EXCEPT ![t] = "exited"]
  /\ s' = [s EXCEPT ![t] = 0]
  /\ calls' = Rec(t, <<>>, calls)
  /\ raised' = Rec(t, DbNotInitialized, raised)
  /\ bodyRaised' = Rec(t, NoExc, bodyRaised)
  /\ dirty' = Rec(t, FALSE, dirty)
  /\ UNCHANGED <<SQLALCHEMY_URL, _session, registry, store, pending, entry,
                 lastCommitted>>

\* "s = self._session()" and "yield s": the body starts
Enter(t) ==
  /\ Outside(t)
  /\ ~SessionMissing
  /\ LET sid == ScopedSessionCall(t) IN
       /\ registry' = [registry EXCEPT ![t] = sid]
       /\ s' = [s EXCEPT ![t] = sid]
  /\ pc' = [pc EXCEPT ![t] = "body"]
  /\ calls' = Rec(t, <<>>, calls)
  /\ raised' = Rec(t, NoExc, raised)
  /\ bodyRaised' = Rec(t, NoExc, bodyRaised)
  /\ entry' = Rec(t, store[t], entry)
  /\ lastCommitted' = Rec(t, store[t], lastCommitted)
  /\ dirty' = Rec(t, FALSE, dirty)
  /\ UNCHANGED <<SQLALCHEMY_URL, _session, store, pending>>

\* the body adds its row, or updates it: session.add(o) / o.field = v
BodyWrite(t, v) ==
  /\ pc[t] = "body"
  /\ pending' = [pending EXCEPT ![s[t]][t] = v]
  /\ UNCHANGED <<SQLALCHEMY_URL, _session, registry, store, pc, s, calls,
                 raised, bodyRaised, entry, lastCommitted, dirty>>

\* the body commits on its own: session.commit() inside the with block
BodyCommit(t) ==
  /\ pc[t] = "body"
  /\ LET r == SessionCommit(store, pending[s[t]]) IN
       /\ store' = r.store
       /\ pending' = [pending EXCEPT ![s[t]] = r.pending]
       /\ lastCommitted' = Rec(t, r.store[t], lastCommitted)
  /\ UNCHANGED <<SQLALCHEMY_URL, _session, registry, pc, s, calls, raised,
                 bodyRaised, entry, dirty>>

(***************************************************************************)
(* The code after the yield works on a frame: the calls made so far, the   *)
(* store, the session's pending work and the exception in flight.          *)
(***************************************************************************)
\* (mutants) a second commit after the yield; a finally clause that closes nothing
CommitCallsTwice == <<"commit", "commit">>
FinallyCallsNone == <<>>

\* the session calls of "s.commit()", of the except clause, of the finally clause
CommitCalls == <<"commit">>
ExceptCalls == <<"rollback">>
FinallyCalls == <<"close">>

\* "s.commit()" after the yield; ok tells whether the commit succeeds
CommitStep(fr, ok) ==
  IF ok
    THEN LET r == SessionCommit(fr.store, fr.pending) IN
         [fr EXCEPT !.calls = @ \o CommitCalls, !.store = r.store,
                    !.pending = r.pending]
    ELSE [fr EXCEPT !.calls = @ \o CommitCalls, !.exc = CommitExc]

\* (mutant) the except clause commits instead of rolling back
ExceptSessionCallCommit(st, p) == SessionCommit(st, p)

\* the session call of the except clause: "s.rollback()"
ExceptSessionCall(st, p) == SessionRollback(st, p)

\* (mutant) "raise Exception(str(e))": a new exception object
ReraiseWrapped(e) == [name |-> "Exception", base |-> "Exception", origin |-> "except"]

\* the exception object "raise (e)" raises, e being the exception caught
Reraise(e) == e

\* (mutant) "s.commit()" placed after the try statement: its failure is not caught
ExceptClauseBodyOnly(fr) ==
  IF fr.exc # NoExc /\ CaughtByExceptException(fr.exc) /\ fr.exc.origin # "commit"
    THEN LET r == ExceptSessionCall(fr.store, fr.pending) IN
         [fr EXCEPT !.calls = @ \o ExceptCalls, !.store = r.store,
                    !.pending = r.pending, !.exc = Reraise(fr.exc)]
    ELSE fr

\* "except Exception as e: s.rollback(); raise (e)"; an exception the clause
\* does not match passes it by
ExceptClause(fr) ==
  IF fr.exc # NoExc /\ CaughtByExceptException(fr.exc)
    THEN LET r == ExceptSessionCall(fr.store, fr.pending) IN
         [fr EXCEPT !.calls = @ \o ExceptCalls, !.store = r.store,
                    !.pending = r.pending, !.exc = Reraise(fr.exc)]
    ELSE fr

\* "finally: s.close()"
FinallyClause(fr) ==
  LET r == SessionClose(fr.store, fr.pending) IN
  [fr EXCEPT !.calls = @ \o FinallyCalls, !.store = r.store, !.pending = r.pending]

\* thread t leaves its scope with the frame fr
Exit(t, fr) ==
  /\ store' = fr.store
  /\ pending' = [pending EXCEPT ![s[t]] = fr.pending]
  /\ calls' = Rec(t, fr.calls, calls)
  /\ raised' = Rec(t, fr.exc, raised)
  /\ dirty' = Rec(t, pending[s[t]][t] # 0, dirty)
  /\ pc' = [pc EXCEPT ![t] = "exited"]

Frame(t, e) == [calls |-> <<>>, store |-> store, pending |-> pending[s[t]], exc |-> e]

\* the body raises e: the exception is thrown into the generator at the yield
BodyRaise(t, e) ==
  /\ pc[t] = "body"
  /\ Exit(t, FinallyClause(ExceptClause(Frame(t, e))))
  /\ bodyRaised' = Rec(t, e, bodyRaised)
  /\ UNCHANGED <<SQLALCHEMY_URL, _session, registry, s, entry, lastCommitted>>

\* the body ends normally: the generator resumes after the yield
BodyReturn(t, ok) ==
  /\ pc[t] = "body"
  /\ Exit(t, FinallyClause(ExceptClause(CommitStep(Frame(t, NoExc), ok))))
  /\ UNCHANGED <<SQLALCHEMY_URL, _session, registry, s, bodyRaised, entry,
                 lastCommitted>>

DbNext ==
  \/ close_app
  \/ \E t \in Threads : EnterUnconfigured(t)
  \/ \E t \in Threads : Enter(t)
  \/ \E t \in Threads, v \in Vals : BodyWrite(t, v)
  \/ \E t \in Threads : BodyCommit(t)
  \/ \E t \in Threads, e \in BodyExcs : BodyRaise(t, e)
  \/ \E t \in Threads, ok \in BOOLEAN : BodyReturn(t, ok)


(***************************************************************************)
(* setup_logging.  A string is a sequence of pieces; a logger name keeps   *)
(* each ".log" it contains as a piece of its own.                          *)
(***************************************************************************)
LoggerNames == { <<"app">>, <<"app", ".log">>, <<"db">> }

\* "ConcurrentRotatingFileHandler(filename=fn, maxBytes=10485760, backupCount=10, ...)"
maxBytes == 10485760
backupCount == 10
\* (mutant) the standard library's handler, which locks within one process only
PlainRotatingFileHandler == "RotatingFileHandler"
FileHandlerClass == "ConcurrentRotatingFileHandler"

\* (mutant) the name used as it is
WholeName(name) == name

\* name_.split(".log")[0]: what precedes the first ".log"
BeforeDotLog(name) ==
  LET hits == {i \in 1..Len(name) : name[i] = ".log"} IN
  IF hits = {} THEN name
  ELSE SubSeq(name, 1, (CHOOSE i \in hits : \A j \in hits : i <= j) - 1)

\* os.path.join(fn_path, "{0}.log".format(name_.split(".log")[0]))
LogFileName(name) == <<"logs", "/">> \o BeforeDotLog(name) \o <<".log">>

\* a handler some other code attached before setup_logging was ever called
ForeignHandler == [cls |-> "FileHandler", owner |-> <<>>, call |-> 0,
                   filename |-> <<"other.log">>]

IsFileHandler(h) ==
  h.cls \in {"FileHandler", "RotatingFileHandler", "ConcurrentRotatingFileHandler"}

\* config.get("LOGGING_LEVEL", "INFO") when level is None, else the level given
ResolveLevel(lvl, cfgLevel) ==
  IF lvl # "None" THEN lvl ELSE IF cfgLevel # "None" THEN cfgLevel ELSE "INFO"

\* getattr(logging, level)
LevelNo(lvl) ==
  CASE lvl = "DEBUG" -> 10 [] lvl = "INFO" -> 20 [] lvl = "WARNING" -> 30

\* (mutant) the line "logging_instance.handlers = []" left out
KeepHandlers(hs) == hs

\* "logging_instance.handlers = []"
ResetHandlers(hs) == <<>>

(***************************************************************************)
(* Emitting through the file handler: the handler takes its lock, rotates  *)
(* the file if the record would not fit, writes the record and releases.   *)
(* Only a ConcurrentRotatingFileHandler holds a lock that spans processes. *)
(***************************************************************************)
Procs == 1..NProcs

LocksAcrossProcesses(cls) == cls = "ConcurrentRotatingFileHandler"

WriteInit ==
  /\ lock = 0
  /\ wpc = [p \in Procs |-> "idle"]
  /\ part = [p \in Procs |-> 1]
  /\ written = [p \in Procs |-> 0]
  /\ file = <<>>
  /\ backups = <<>>

EmitAcquire(p) ==
  /\ wpc[p] = "idle"
  /\ written[p] < MaxRecords
  /\ IF LocksAcrossProcesses(FileHandlerClass)
       THEN lock = 0 /\ lock' = p
       ELSE lock' = lock
  /\ wpc' = [wpc EXCEPT ![p] = "rollover"]
  /\ UNCHANGED <<part, written, file, backups>>

\* shouldRollover / doRollover: the file becomes the newest backup, at most
\* backupCount backups are kept
EmitRollover(p) ==
  /\ wpc[p] = "rollover"
  /\ IF Len(file) + NParts > RotateRecords * NParts
       THEN /\ backups' = SubSeq(<<file>> \o backups, 1,
                                 IF Len(backups) + 1 > backupCount
                                   THEN backupCount ELSE Len(backups) + 1)
            /\ file' = <<>>
       ELSE UNCHANGED <<file, backups>>
  /\ wpc' = [wpc EXCEPT ![p] = "write"]
  /\ part' = [part EXCEPT ![p] = 1]
  /\ UNCHANGED <<lock, written>>

EmitWrite(p) ==
  /\ wpc[p] = "write"
  /\ file' = Append(file, [proc |-> p, rec |-> written[p] + 1, part |-> part[p]])
  /\ IF part[p] = NParts
       THEN wpc' = [wpc EXCEPT ![p] = "release"] /\ part' = part
       ELSE part' = [part EXCEPT ![p] = @ + 1] /\ wpc' = wpc
  /\ UNCHANGED <<lock, written, backups>>

EmitRelease(p) ==
  /\ wpc[p] = "release"
  /\ lock' = IF lock = p THEN 0 ELSE lock
  /\ written' = [written EXCEPT ![p] = @ + 1]
  /\ wpc' = [wpc EXCEPT ![p] = "idle"]
  /\ UNCHANGED <<part, file, backups>>

WriteNext ==
  \/ \E p \in Procs : EmitAcquire(p)
  \/ \E p \in Procs : EmitRollover(p)
  \/ \E p \in Procs : EmitWrite(p)
  \/ \E p \in Procs : EmitRelease(p)

(***************************************************************************)
(* Properties of the log file.                                             *)
(***************************************************************************)
\* the parts of f are those of whole records, each in order and unbroken,
\* the last record possibly still being written
UnbrokenLines(f) ==
  \A i \in 1..Len(f) :
    /\ f[i].part = ((i - 1) % NParts) + 1
    /\ f[i].part > 1 => (f[i].proc = f[i - 1].proc /\ f[i].rec = f[i - 1].rec)

\* C8: the write of a record and the rotation it may trigger are one mutually
\* exclusive region across processes, so every line of the log file (and of
\* its rotated backups) is one complete record, never an interleave of two.
C8_WholeLines ==
  /\ Cardinality({p \in Procs : wpc[p] # "idle"}) <= 1
  /\ UnbrokenLines(file)
  /\ \A b \in 1..Len(backups) :
       UnbrokenLines(backups[b]) /\ Len(backups[b]) % NParts = 0
  /\ (\A p \in Procs : wpc[p] \in {"idle", "rollover", "release"})
       => Len(file) % NParts = 0

\* a process is writing while another has written before it, after a rotation
C8_Witness ==
  \E p, q \in Procs :
    /\ p # q /\ wpc[p] = "write" /\ part[p] > 1 /\ written[q] >= 1
    /\ backups # <<>>
    /\ \E i \in 1..Len(file) : file[i].proc = q


(***************************************************************************)
(* conf_update_from_env.  A string is a sequence of characters; a Python   *)
(* value is a record: its type, its number (int and bool) and its text.    *)
(***************************************************************************)
PyInt(n) == [type |-> "int", n |-> n, str |-> <<>>]
PyBool(b) == [type |-> "bool", n |-> IF b THEN 1 ELSE 0, str |-> <<>>]
PyNone == [type |-> "NoneType", n |-> 0, str |-> <<>>]
PyStr(x) == [type |-> "str", n |-> 0, str |-> x]
\* the parse raised
Fail == [type |-> "fail", n |-> 0, str |-> <<>>]

Digits == {"0", "2", "7"}
DigitVal(c) == CASE c = "0" -> 0 [] c = "2" -> 2 [] c = "7" -> 7
AllDigits(x) == Len(x) >= 1 /\ \A i \in 1..Len(x) : x[i] \in Digits

RECURSIVE ParseNat(_)
ParseNat(x) ==
  IF Len(x) = 0 THEN 0
  ELSE 10 * ParseNat(SubSeq(x, 1, Len(x) - 1)) + DigitVal(x[Len(x)])

\* the text of a JSON string body: "\/" stands for "/"; another backslash or a
\* bare quote is an error (an empty record type "fail")
RECURSIVE JsonUnescape(_)
JsonUnescape(x) ==
  IF Len(x) = 0 THEN PyStr(<<>>)
  ELSE IF x[1] = "\"" THEN Fail
  ELSE IF x[1] = "\\"
    THEN IF Len(x) >= 2 /\ x[2] = "/"
           THEN LET r == JsonUnescape(SubSeq(x, 3, Len(x))) IN
                IF r = Fail THEN Fail ELSE PyStr(<<"/">> \o r.str)
           ELSE Fail
  ELSE LET r == JsonUnescape(Tail(x)) IN
       IF r = Fail THEN Fail ELSE PyStr(<<x[1]>> \o r.str)

\* json.loads(new_value): numbers without a leading zero, true, false, null,
\* double-quoted strings
JsonLoads(x) ==
  IF x = <<"t", "r", "u", "e">> THEN PyBool(TRUE)
  ELSE IF x = <<"f", "a", "l", "s", "e">> THEN PyBool(FALSE)
  ELSE IF x = <<"n", "u", "l", "l">> THEN PyNone
  ELSE IF AllDigits(x) THEN (IF Len(x) > 1 /\ x[1] = "0" THEN Fail ELSE PyInt(ParseNat(x)))
  ELSE IF Len(x) >= 2 /\ x[1] = "\"" /\ x[Len(x)] = "\""
    THEN JsonUnescape(SubSeq(x, 2, Len(x) - 1))
  ELSE Fail

\* the text of a Python string body quoted by q: a backslash before "/" is
\* kept with it; another backslash or a bare q is not modelled (an error)
RECURSIVE PyUnescape(_, _)
PyUnescape(x, q) ==
  IF Len(x) = 0 THEN PyStr(<<>>)
  ELSE IF x[1] = q THEN Fail
  ELSE IF x[1] = "\\"
    THEN IF Len(x) >= 2 /\ x[2] = "/"
           THEN LET r == PyUnescape(SubSeq(x, 3, Len(x)), q) IN
                IF r = Fail THEN Fail ELSE PyStr(<<"\\", "/">> \o r.str)
           ELSE Fail
  ELSE LET r == PyUnescape(Tail(x), q) IN
       IF r = Fail THEN Fail ELSE PyStr(<<x[1]>> \o r.str)

\* ast.literal_eval(new_value): True, False, None, decimal integers (a leading
\* zero only in zero itself), strings in single or double quotes
LiteralEval(x) ==
  IF x = <<"T", "r", "u", "e">> THEN PyBool(TRUE)
  ELSE IF x = <<"F", "a", "l", "s", "e">> THEN PyBool(FALSE)
  ELSE IF x = <<"N", "o", "n", "e">> THEN PyNone
  ELSE IF AllDigits(x)
    THEN (IF Len(x) > 1 /\ x[1] = "0" /\ \E i \in 1..Len(x) : x[i] # "0"
            THEN Fail ELSE PyInt(ParseNat(x)))
  ELSE IF Len(x) >= 2 /\ x[1] \in {"\"", "'"} /\ x[Len(x)] = x[1]
    THEN PyUnescape(SubSeq(x, 2, Len(x) - 1), x[1])
  ELSE Fail

\* (mutant) the two parses tried in the other order
ReplaceValueLiteralFirst(new_value) ==
  IF LiteralEval(new_value) # Fail THEN LiteralEval(new_value)
  ELSE IF JsonLoads(new_value) # Fail THEN JsonLoads(new_value)
  ELSE PyStr(new_value)

\* _replace_value: the value stored for new_value
ReplaceValue(new_value) ==
  IF JsonLoads(new_value) # Fail THEN JsonLoads(new_value)
  ELSE IF LiteralEval(new_value) # Fail THEN LiteralEval(new_value)
  ELSE PyStr(new_value)

\* str.upper and str.replace(".", "_"), character by character
Upper(c) == CASE c = "x" -> "X" [] c = "y" -> "Y" [] OTHER -> c
NormalizeApp(app) ==
  [i \in 1..Len(app) |-> Upper(IF app[i] = "." THEN "_" ELSE app[i])]

\* "_".join((app_name, key)), app_name normalized
SpecificAppKey(app, key) == NormalizeApp(app) \o <<"_">> \o key

\* (mutant) the bare variable consulted first
EnvNameBareFirst(app, key) ==
  IF key \in DOMAIN environ THEN key
  ELSE IF SpecificAppKey(app, key) \in DOMAIN environ THEN SpecificAppKey(app, key)
  ELSE <<>>

\* the if / elif of conf_update_from_env: the variable that overrides key,
\* <<>> when none does
EnvNameFor(app, key) ==
  IF SpecificAppKey(app, key) \in DOMAIN environ THEN SpecificAppKey(app, key)
  ELSE IF key \in DOMAIN environ THEN key
  ELSE <<>>

AppNames == { <<>>, <<"x">>, <<"x", ".", "y">> }
EnvNames == { <<"F">>, <<"B">>, <<"_", "B">>, <<"X", "_", "F">>, <<"X", "_", "B">>,
              <<"X", "_", "Y", "_", "F">>, <<"Z">> }
EnvValues == { <<"2">>, <<"0", "7">>, <<"t", "r", "u", "e">>, <<"T", "r", "u", "e">>,
               <<"f", "a", "l", "s", "e">>, <<"F", "a", "l", "s", "e">>,
               <<"n", "u", "l", "l">>, <<"N", "o", "n", "e">>, <<"a", "b", "c">>,
               <<"\"", "\\", "/", "\"">> }
\* the map of the repository's test: {"FOO": 1, "BAR": False}
InitialConf == (<<"F">> :> PyInt(1)) @@ (<<"B">> :> PyBool(FALSE))

EnvInit ==
  /\ app_name \in AppNames
  /\ environ \in UNION { [D -> EnvValues] :
                         D \in {E \in SUBSET EnvNames : Cardinality(E) <= MaxEnvSet} }
  /\ conf = InitialConf
  /\ envpc = "start"

\* (mutant) every variable of the environment is merged, also one no key names
conf_update_adding_keys ==
  /\ envpc = "start"
  /\ conf' = [key \in DOMAIN conf \cup DOMAIN environ |->
                IF key \in DOMAIN conf /\ EnvNameFor(app_name, key) # <<>>
                  THEN ReplaceValue(environ[EnvNameFor(app_name, key)])
                ELSE IF key \in DOMAIN conf THEN conf[key]
                ELSE ReplaceValue(environ[key])]
  /\ envpc' = "done"
  /\ UNCHANGED <<app_name, environ>>

conf_update_from_env ==
  /\ envpc = "start"
  /\ conf' = [key \in DOMAIN conf |->
                IF EnvNameFor(app_name, key) # <<>>
                  THEN ReplaceValue(environ[EnvNameFor(app_name, key)])
                  ELSE conf[key]]
  /\ envpc' = "done"
  /\ UNCHANGED <<app_name, environ>>

EnvNext == conf_update_from_env

(***************************************************************************)
(* Properties of conf_update_from_env.                                     *)
(***************************************************************************)
\* "<APP>_": the app name with "." replaced by "_", uppercased, then "_"
AppPrefix ==
  CASE app_name = <<>> -> <<"_">>
    [] app_name = <<"x">> -> <<"X", "_">>
    [] app_name = <<"x", ".", "y">> -> <<"X", "_", "Y", "_">>

\* C9: for every key, when both "<APP>_<KEY>" and "<KEY>" are set the new
\* value is the coercion of the app-prefixed variable; when only one is set,
\* it is the coercion of that one.
C9_AppPrefixedWins ==
  envpc = "done" =>
    \A key \in DOMAIN conf :
      /\ (AppPrefix \o key) \in DOMAIN environ
           => conf[key] = ReplaceValue(environ[AppPrefix \o key])
      /\ ((AppPrefix \o key) \notin DOMAIN environ /\ key \in DOMAIN environ)
           => conf[key] = ReplaceValue(environ[key])

\* both variables of a key set to values that coerce differently, app "x.y"
C9_Witness ==
  /\ envpc = "done" /\ app_name = <<"x", ".", "y">>
  /\ <<"F">> \in DOMAIN environ /\ <<"X", "_", "Y", "_", "F">> \in DOMAIN environ
  /\ ReplaceValue(environ[<<"F">>]) # ReplaceValue(environ[<<"X", "_", "Y", "_", "F">>])
  /\ conf[<<"F">>] # InitialConf[<<"F">>]

\* the variable that overrides key, per C9
Chosen(key) ==
  IF (AppPrefix \o key) \in DOMAIN environ THEN AppPrefix \o key ELSE key
Overridden(key) ==
  (AppPrefix \o key) \in DOMAIN environ \/ key \in DOMAIN environ

\* the three tiers, and the examples both statements of C10 agree on
C10_TiersAt(key, v) ==
  /\ JsonLoads(v) # Fail => conf[key] = JsonLoads(v)
  /\ (JsonLoads(v) = Fail /\ LiteralEval(v) # Fail) => conf[key] = LiteralEval(v)
  /\ (JsonLoads(v) = Fail /\ LiteralEval(v) = Fail) => conf[key] = PyStr(v)
  /\ v = <<"2">> => conf[key] = PyInt(2)
  /\ v \in {<<"t", "r", "u", "e">>, <<"T", "r", "u", "e">>} => conf[key] = PyBool(TRUE)
  /\ v \in {<<"f", "a", "l", "s", "e">>, <<"F", "a", "l", "s", "e">>}
       => conf[key] = PyBool(FALSE)

BooleanToken(v) ==
  v \in {<<"t", "r", "u", "e">>, <<"T", "r", "u", "e">>,
         <<"f", "a", "l", "s", "e">>, <<"F", "a", "l", "s", "e">>}

\* C10 (as stated): the stored value is the strict JSON parse if it parses,
\* else the Python literal evaluation if it succeeds, else the raw string; so
\* "2" becomes 2, true/false/True/False become booleans, and any other
\* non-numeric, non-boolean token stays a string.
C10_OtherTokensStayStrings ==
  envpc = "done" =>
    \A key \in DOMAIN conf : Overridden(key) =>
      LET v == environ[Chosen(key)] IN
      /\ C10_TiersAt(key, v)
      /\ (~AllDigits(v) /\ ~BooleanToken(v)) => conf[key] = PyStr(v)

\* C10 (amended): the same three tiers and examples; a token stays the raw
\* string exactly when neither parse accepts it ("abc", "07"); a token one
\* of them accepts is stored as parsed: null and None become the null value,
\* a quoted token becomes the text inside the quotes (as JSON reads it).
C10_ThreeTiers ==
  envpc = "done" =>
    \A key \in DOMAIN conf : Overridden(key) =>
      LET v == environ[Chosen(key)] IN
      /\ C10_TiersAt(key, v)
      /\ v \in {<<"a", "b", "c">>, <<"0", "7">>} => conf[key] = PyStr(v)
      /\ v \in {<<"n", "u", "l", "l">>, <<"N", "o", "n", "e">>} => conf[key] = PyNone
      /\ v = <<"\"", "\\", "/", "\"">> => conf[key] = PyStr(<<"/">>)

\* "True" went through the second tier, "abc" through the third
C10_Witness ==
  /\ envpc = "done"
  /\ environ = (<<"F">> :> <<"T", "r", "u", "e">>) @@ (<<"B">> :> <<"a", "b", "c">>)
  /\ conf[<<"F">>] = PyBool(TRUE) /\ conf[<<"B">>] = PyStr(<<"a", "b", "c">>)

\* the variables of the environment that some key of the map names
NamedByAKey ==
  { n \in DOMAIN environ :
      \E key \in DOMAIN InitialConf : n = key \/ n = AppPrefix \o key }

\* the map merged with the variables of env only
MergedWith(env) ==
  [key \in DOMAIN InitialConf |->
     IF (AppPrefix \o key) \in DOMAIN env THEN ReplaceValue(env[AppPrefix \o key])
     ELSE IF key \in DOMAIN env THEN ReplaceValue(env[key])
     ELSE InitialConf[key]]

\* C21: conf_update_from_env never adds or removes a key: the key set after
\* the call is the key set before it, a key for which neither "<APP>_<KEY>"
\* nor "<KEY>" is set keeps its value, and a variable whose name matches no
\* key has no effect (the map is what the matching variables alone give).
C21_KeysKept ==
  envpc = "done" =>
    /\ DOMAIN conf = DOMAIN InitialConf
    /\ \A key \in DOMAIN InitialConf :
         ~Overridden(key) => conf[key] = InitialConf[key]
    /\ conf = MergedWith([n \in NamedByAKey |-> environ[n]])

\* app "x": X_F overrides F, nothing names B, and Z matches no key
C21_Witness ==
  /\ envpc = "done" /\ app_name = <<"x">>
  /\ DOMAIN environ = {<<"X", "_", "F">>, <<"Z">>}
  /\ conf[<<"F">>] # InitialConf[<<"F">>]
  /\ conf[<<"B">>] = InitialConf[<<"B">>]
  /\ DOMAIN conf = {<<"F">>, <<"B">>}

(***************************************************************************)
(* Properties of db_session.                                               *)
(***************************************************************************)
InCalls(c) == \E i \in 1..Len(calls) : calls[i] = c
CountCalls(c) == Cardinality({i \in 1..Len(calls) : calls[i] = c})
\* Main has left a scope that had obtained a session
ScopeDone == pc[Main] = "exited" /\ s[Main] # 0

\* C1 (as stated): whenever the body of the scope raises an exception, the
\* session is rolled back, commit is never called for that scope, and the very
\* same exception object reaches the caller.
C1_RollbackOnAnyException ==
  (ScopeDone /\ bodyRaised # NoExc) =>
     /\ InCalls("rollback")
     /\ ~InCalls("commit")
     /\ raised = bodyRaised

\* C1 (amended): whenever the body raises, commit is never called and the very
\* same exception object reaches the caller; rollback is called exactly when
\* the exception is an instance of Exception (not for SystemExit and the other
\* exceptions outside Exception, for which the session is only closed).
C1_RollbackOnException ==
  (ScopeDone /\ bodyRaised # NoExc) =>
     /\ ~InCalls("commit")
     /\ raised = bodyRaised
     /\ (InCalls("rollback") <=> bodyRaised.base = "Exception")
     /\ (bodyRaised.base = "Exception" => calls = <<"rollback", "close">>)

\* the body raised an ordinary error with uncommitted work in its session
C1_Witness ==
  /\ ScopeDone /\ bodyRaised.base = "Exception" /\ dirty
  /\ calls = <<"rollback", "close">> /\ raised = bodyRaised

\* C2: for every scope that obtained a session, on every exit path (normal
\* exit, exception in the body, failure of commit) close is called exactly
\* once, and it is the last session call of the scope: after the commit or
\* rollback, never before.
C2_CloseOnceLast ==
  /\ pc[Main] = "body" => ~InCalls("close")
  /\ ScopeDone =>
       /\ CountCalls("close") = 1
       /\ calls[Len(calls)] = "close"
       /\ \A i \in 1..Len(calls) :
            calls[i] \in {"commit", "rollback"} => i < Len(calls)

\* the exit path of a failed commit: commit, rollback, then the one close
C2_Witness ==
  ScopeDone /\ bodyRaised = NoExc /\ calls = <<"commit", "rollback", "close">>

\* C3 (as stated): when the body finishes without raising, the session is
\* committed exactly once and is not rolled back.
C3_CommitNoRollback ==
  (ScopeDone /\ bodyRaised = NoExc) =>
     CountCalls("commit") = 1 /\ ~InCalls("rollback")

\* C3 (amended): when the body finishes without raising, commit is called
\* exactly once; rollback is not called when that commit succeeds, and is
\* called (once, after it) when the commit itself raises.
C3_CommitOnce ==
  (ScopeDone /\ bodyRaised = NoExc) =>
     /\ CountCalls("commit") = 1
     /\ calls[1] = "commit"
     /\ raised = NoExc => ~InCalls("rollback")
     /\ raised # NoExc => (raised = CommitExc /\ CountCalls("rollback") = 1)

\* a body that wrote and returned, committed by the scope
C3_Witness ==
  /\ ScopeDone /\ bodyRaised = NoExc /\ dirty /\ raised = NoExc
  /\ calls = <<"commit", "close">> /\ store[Main] # entry

\* C4 (as stated): a scope whose body raises leaves the store as it was when
\* the scope was entered, whatever the body did before raising (adds, updates,
\* intermediate commits).
C4_StoreAsAtEntry ==
  (ScopeDone /\ bodyRaised # NoExc) => store[Main] = entry

\* C4 (amended): a scope whose body raises leaves in the store what was
\* committed when the scope was entered plus what the body committed itself
\* before raising; the work not yet committed at the raise never reaches it.
C4_StoreAsLastCommitted ==
  (ScopeDone /\ bodyRaised # NoExc) => store[Main] = lastCommitted

\* the body committed a change, wrote again and raised
C4_Witness ==
  /\ ScopeDone /\ bodyRaised # NoExc /\ dirty
  /\ lastCommitted # entry /\ store[Main] = lastCommitted

\* C5: each thread gets a session of its own (session identity keyed by
\* thread identity): the sessions of two threads differ, a thread's session
\* (on which its commit, rollback and close act and through which it queries)
\* holds no other thread's uncommitted work, and what it sees of another
\* thread's row is the committed value.
C5_SessionPerThread ==
  /\ \A t, u \in Threads : (t # u /\ s[t] # 0 /\ s[u] # 0) => s[t] # s[u]
  /\ \A t \in Threads : pc[t] = "body" =>
       \A r \in Threads \ {t} :
         /\ pending[s[t]][r] = 0
         /\ View(store, pending[s[t]])[r] = store[r]
  /\ \A i \in SessionIds, r \in Threads :
       pending[i][r] # 0 => (pc[r] = "body" /\ s[r] = i)

\* two threads inside their scopes at once, each with uncommitted work
C5_Witness ==
  \E t, u \in Threads :
    /\ t # u /\ pc[t] = "body" /\ pc[u] = "body"
    /\ pending[s[t]][t] # 0 /\ pending[s[u]][u] # 0
    /\ store[t] # pending[s[t]][t]

\* C6: entering db_session with no backend (no SQLALCHEMY_URL at construction,
\* or after close_app) raises the error naming SQLALCHEMY_URL before any
\* session is obtained: no commit, rollback or close, nothing touched.
C6_NoBackendRaises ==
  [][ ( /\ _session = "None" /\ Outside(Main)
        /\ <<pc[Main], s[Main], calls, raised>>' # <<pc[Main], s[Main], calls, raised>> )
      => /\ pc'[Main] = "exited"
         /\ raised' = DbNotInitialized
         /\ \E i \in 1..Len(ExcMessage(raised')) :
              ExcMessage(raised')[i] = "SQLALCHEMY_URL"
         /\ calls' = <<>>
         /\ s'[Main] = 0
         /\ UNCHANGED <<registry, store, pending>> ]_vars

\* a worker built with a url, closed by close_app, then asked for a scope
C6_Witness ==
  /\ SQLALCHEMY_URL = "sqlite:///" /\ _session = "None"
  /\ pc[Main] = "exited" /\ raised = DbNotInitialized /\ s[Main] = 0

\* C22: when the body of a scope finishes normally but the commit itself
\* raises, the session is rolled back (after the commit, leaving no pending
\* work and the store as last committed), the commit's exception reaches the
\* caller, and the session is still closed exactly once.
C22_CommitFailure ==
  (ScopeDone /\ bodyRaised = NoExc /\ raised # NoExc) =>
     /\ raised = CommitExc
     /\ calls = <<"commit", "rollback", "close">>
     /\ CountCalls("close") = 1
     /\ pending[s[Main]] = NoPending
     /\ store[Main] = lastCommitted

\* a body that wrote and returned, and whose commit failed
C22_Witness ==
  /\ ScopeDone /\ bodyRaised = NoExc /\ dirty /\ raised = CommitExc
  /\ CountCalls("rollback") = 1 /\ CountCalls("close") = 1
  /\ store[Main] = entry

(***************************************************************************)
(* Root discovery (_get_proj_home).  A path is a sequence of pieces: "/"   *)
(* and names; the directories are a chain below the root, each one level   *)
(* deeper than the last.  <<>> stands for None.                            *)
(***************************************************************************)
\* depth of the deepest directory
MaxDepth == 3
\* calls made in one run
MaxCalls == 2

NoPath == <<>>
Root == <<"/">>

\* os.path.abspath(os.path.join(x, name))
Join(x, name) == IF x = Root THEN <<"/", name>> ELSE x \o <<"/", name>>

\* os.path.abspath(os.path.join(x, "..")); the root is its own parent
Parent(x) == IF Len(x) <= 2 THEN Root ELSE SubSeq(x, 1, Len(x) - 2)

\* os.path.dirname(module)
Dirname(module) == IF Len(module) <= 2 THEN Root ELSE SubSeq(module, 1, Len(module) - 2)

\* os.path.abspath(p): a relative path is taken from the working directory
Abspath(p) ==
  IF p[1] = "/" THEN p ELSE IF cwd = Root THEN Root \o p ELSE cwd \o <<"/">> \o p

RECURSIVE DirAt(_)
DirAt(k) == IF k = 0 THEN Root ELSE Join(DirAt(k - 1), "a")
Dirs == {DirAt(k) : k \in 0..MaxDepth}

\* os.path.exists(p)
Exists(p) == p \in DOMAIN fs

Directory == [kind |-> "dir", bindings |-> <<>>, error |-> "None"]
File(bindings, error) == [kind |-> "file", bindings |-> bindings, error |-> error]

\* (mutant) only the dependency manifest counts
HasRequirementsOnly(x) == Exists(Join(x, "requirements.txt"))

\* "if os.path.exists(f) or os.path.exists(p)"
HasMarker(x) == Exists(Join(x, "requirements.txt")) \/ Exists(Join(x, "pyproject.toml"))

\* the loop of swimup: "while max_level:", x the directory looked at next
RECURSIVE swimup_loop(_, _)
swimup_loop(x, max_level) ==
  IF max_level = 0 THEN NoPath
  ELSE IF HasMarker(x) THEN x
  ELSE swimup_loop(Parent(x), max_level - 1)

\* "max_level = 3"
swimup(start) == swimup_loop(start, 3)

\* the source file of rutils itself
LibFile == <<"/", "lib", "/", "rutils.py">>

\* inspect.stack() inside _get_proj_home: its own frame, the frames of rutils
\* between it and the caller (lib of them), then the callers' frames
Stack(lib) == [i \in 1..(1 + lib) |-> LibFile] \o callers

Returned(x) == [kind |-> "path", path |-> x, map |-> <<>>]
NoRet == [kind |-> "none", path |-> NoPath, map |-> <<>>]

CwdDiagnostic == [msg |-> "Couldn't identify project root from: {}", path |-> cwd]
CallerDiagnostic(d) ==
  [msg |-> "Sorry, cant find the proj home; returning the location of the caller: %s",
   path |-> d]

\* (mutant) the caller's directory tried before the working directory
GetProjHomeCallerFirst(stack, extra_frames) ==
  IF 2 + extra_frames + 1 <= Len(stack) /\ stack[2 + extra_frames + 1] # NoPath
       /\ swimup(Dirname(stack[2 + extra_frames + 1])) # NoPath
    THEN [ret |-> Returned(swimup(Dirname(stack[2 + extra_frames + 1]))),
          exc |-> "None", stderr |-> <<>>]
    ELSE [ret |-> Returned(cwd), exc |-> "None", stderr |-> <<>>]

\* _get_proj_home(extra_frames) run with the call stack `stack`: what it
\* returns or raises, and what it writes to sys.stderr
GetProjHome(stack, extra_frames) ==
  IF swimup(cwd) # NoPath
    THEN [ret |-> Returned(swimup(cwd)), exc |-> "None", stderr |-> <<>>]
  ELSE IF 2 + extra_frames + 1 > Len(stack)
    THEN [ret |-> NoRet, exc |-> "IndexError", stderr |-> <<CwdDiagnostic>>]
  ELSE
    LET module == stack[2 + extra_frames + 1] IN
    IF module = NoPath
      THEN [ret |-> NoRet, exc |-> "Exception", stderr |-> <<CwdDiagnostic>>]
    ELSE IF swimup(Dirname(module)) # NoPath
      THEN [ret |-> Returned(swimup(Dirname(module))), exc |-> "None",
            stderr |-> <<CwdDiagnostic>>]
    ELSE [ret |-> Returned(Dirname(module)), exc |-> "None",
          stderr |-> <<CwdDiagnostic, CallerDiagnostic(Dirname(module))>>]

SourceFiles == {Join(d, "m.py") : d \in Dirs} \cup {NoPath}

\* the directories exist; each holds one of the marker files or none
HomeInit ==
  /\ \E m \in [Dirs -> {"none", "requirements.txt", "pyproject.toml"}] :
       fs = [p \in Dirs \cup {Join(d, m[d]) : d \in {e \in Dirs : m[e] # "none"}} |->
               IF p \in Dirs THEN Directory ELSE File(<<>>, "None")]
  /\ cwd \in Dirs
  /\ callers \in {<<f>> : f \in SourceFiles}
                   \cup {<<Join(Root, "m.py"), g>> : g \in SourceFiles}
  /\ sys_path = <<>>
  /\ cfgpc = 0
  /\ ret = NoRet
  /\ exc = "None"
  /\ stderr = <<>>
  /\ args = [fn |-> "None", proj_home |-> NoPath, extra_frames |-> 0,
             app_name |-> <<>>, via |-> "None"]
  /\ trace = [opened |-> <<>>, modules |-> <<>>, before |-> <<>>, merged |-> <<>>,
              home |-> <<>>]

\* a function of rutils (as setup_logging does on line 259) calls
\* _get_proj_home(extra_frames)
CallGetProjHome(extra_frames) ==
  /\ cfgpc < MaxCalls
  /\ LET r == GetProjHome(Stack(1), extra_frames) IN
       /\ ret' = r.ret
       /\ exc' = r.exc
       /\ stderr' = r.stderr
  /\ args' = [fn |-> "_get_proj_home", proj_home |-> NoPath,
              extra_frames |-> extra_frames, app_name |-> <<>>, via |-> "direct"]
  /\ trace' = [opened |-> <<>>, modules |-> <<>>, before |-> sys_path,
               merged |-> <<>>, home |-> ret'.path]
  /\ cfgpc' = cfgpc + 1
  /\ UNCHANGED <<fs, cwd, callers, sys_path>>

HomeNext == \E extra_frames \in 0..1 : CallGetProjHome(extra_frames)

(***************************************************************************)
(* Properties of root discovery.                                           *)
(***************************************************************************)
\* the directory k levels above x (the root has nothing above it)
Above(x, k) == IF Len(x) - 2 * k < 2 THEN Root ELSE SubSeq(x, 1, Len(x) - 2 * k)

\* x holds one of the two marker files
Marked(x) ==
  \E p \in DOMAIN fs :
    /\ p[Len(p)] \in {"requirements.txt", "pyproject.toml"}
    /\ SubSeq(p, 1, Len(p) - 1) \in {x \o <<"/">>, x}

\* the nearest directory with a marker among start and its ancestors up to
\* `levels` levels above it; NoPath when there is none
Nearest(start, levels) ==
  LET hits == {k \in 0..levels : Marked(Above(start, k))} IN
  IF hits = {} THEN NoPath
  ELSE Above(start, CHOOSE k \in hits : \A j \in hits : k <= j)

\* C16 (as stated): the walk returns the nearest directory, among the start
\* and its ancestors up to 3 levels above it, that holds requirements.txt or
\* pyproject.toml, and nothing when no directory in that range has one.
C16_WithinThreeAbove == \A start \in Dirs : swimup(start) = Nearest(start, 3)

\* C16 (amended): the walk looks at 3 directories, the start and its ancestors
\* up to 2 levels above it; it returns the nearest of them that holds
\* requirements.txt or pyproject.toml (so a marker exactly 2 levels above is
\* found) and nothing when none of the three has one.
C16_WithinTwoAbove == \A start \in Dirs : swimup(start) = Nearest(start, 2)

\* a walk from the working directory that found the marker exactly 2 levels up
C16_Witness ==
  /\ cfgpc >= 1 /\ args.fn = "_get_proj_home" /\ Len(cwd) >= 6
  /\ ~Marked(cwd) /\ ~Marked(Above(cwd, 1)) /\ Marked(Above(cwd, 2))
  /\ ret = Returned(Above(cwd, 2))

\* the frame at stack depth 2 + extra_frames of the last _get_proj_home call,
\* as an index into callers (depth 0 is _get_proj_home, depth 1 its caller in rutils)
CallerIndex == args.extra_frames + 1
FrameExists == CallerIndex <= Len(callers)
CallerDir == SubSeq(callers[CallerIndex], 1, Len(callers[CallerIndex]) - 1 -
                      (IF Len(callers[CallerIndex]) > 2 THEN 1 ELSE 0))

\* the fixed order of the sources, for a frame whose source file is known
C17_OrderAt ==
  /\ Nearest(cwd, 2) # NoPath
       => (ret = Returned(Nearest(cwd, 2)) /\ exc = "None" /\ stderr = <<>>)
  /\ (Nearest(cwd, 2) = NoPath /\ FrameExists /\ callers[CallerIndex] # NoPath)
       => /\ exc = "None"
          /\ Nearest(CallerDir, 2) # NoPath => ret = Returned(Nearest(CallerDir, 2))
          /\ Nearest(CallerDir, 2) = NoPath
               => /\ ret = Returned(CallerDir)
                  /\ stderr # <<>>
                  /\ stderr[Len(stderr)].path = CallerDir

\* C17 (as stated): the walk from the working directory first; only if it finds
\* nothing, the walk from the directory of the caller's source file (stack
\* depth 2 + extra_frames); only if that finds nothing either, the caller's
\* directory itself, after a diagnostic on the error stream.  When the stack
\* frame exists, a missing marker is never a fatal error.
C17_NeverFatalWithFrame ==
  (cfgpc >= 1 /\ args.fn = "_get_proj_home") =>
    /\ C17_OrderAt
    /\ FrameExists => exc = "None"

\* C17 (amended): the same order; a missing marker is never a fatal error when
\* the stack frame exists and its source file can be determined.  When the
\* walk from the working directory finds nothing and the frame has no source
\* file, _get_proj_home raises an Exception and returns nothing.
C17_SourcesInOrder ==
  (cfgpc >= 1 /\ args.fn = "_get_proj_home") =>
    /\ C17_OrderAt
    /\ (FrameExists /\ callers[CallerIndex] # NoPath) => exc = "None"
    /\ (Nearest(cwd, 2) = NoPath /\ FrameExists /\ callers[CallerIndex] = NoPath)
         => (exc = "Exception" /\ ret = NoRet)

\* both walks found nothing: the caller's directory came back, with a diagnostic
C17_Witness ==
  /\ cfgpc >= 1 /\ args.fn = "_get_proj_home" /\ args.extra_frames = 1
  /\ Len(callers) = 2 /\ callers[2] # NoPath
  /\ Nearest(cwd, 2) = NoPath /\ Nearest(CallerDir, 2) = NoPath
  /\ CallerDir # cwd /\ \E d \in Dirs : Marked(d)
  /\ ret = Returned(CallerDir) /\ Len(stderr) = 2

(***************************************************************************)
(* load_module and load_config.  A config file is a sequence of top-level  *)
(* bindings, name = value, run in order; a name is a sequence of           *)
(* characters.                                                             *)
(***************************************************************************)
\* top-level bindings in config.py and local_config.py together
MaxBindings == 2

PROJ_HOME == <<"P", "R", "O", "J", "_", "H", "O", "M", "E">>
SERVICE == <<"S", "E", "R", "V", "I", "C", "E">>

UppercaseLetters ==
  {"A", "B", "C", "D", "E", "F", "G", "H", "I", "J", "K", "L", "M",
   "N", "O", "P", "Q", "R", "S", "T", "U", "V", "W", "X", "Y", "Z"}
LowercaseLetters ==
  {"a", "b", "c", "d", "e", "f", "g", "h", "i", "j", "k", "l", "m",
   "n", "o", "p", "q", "r", "s", "t", "u", "v", "w", "x", "y", "z"}

\* (mutant) every attribute of the module is taken
IsAnything(key) == TRUE

\* key.isupper(): some cased character, and no cased character in lowercase
IsUpper(key) ==
  /\ \E i \in 1..Len(key) : key[i] \in UppercaseLetters \cup LowercaseLetters
  /\ \A i \in 1..Len(key) : key[i] \notin LowercaseLetters

\* the namespace of the module object before the file runs
ModuleDict(filename) ==
  (<<"_", "_", "f", "i", "l", "e", "_", "_">> :> PyStr(filename))
    @@ (<<"_", "_", "n", "a", "m", "e", "_", "_">> :> PyStr(<<"config">>))

\* (mutant) dict.update that keeps the values already there
UpdateKeepingOld(a, b) ==
  [k \in DOMAIN a \cup DOMAIN b |-> IF k \in DOMAIN a THEN a[k] ELSE b[k]]

\* a.update(b)
Update(a, b) ==
  [k \in DOMAIN a \cup DOMAIN b |-> IF k \in DOMAIN b THEN b[k] ELSE a[k]]

\* exec(compile(config_file.read(), filename, "exec"), d.__dict__)
RECURSIVE Exec(_, _)
Exec(bindings, d) ==
  IF bindings = <<>> THEN d
  ELSE Exec(Tail(bindings), [k \in DOMAIN d \cup {Head(bindings).name} |->
                               IF k = Head(bindings).name THEN Head(bindings).value
                               ELSE d[k]])

\* from_object(d, res): "for key in dir(from_obj): if key.isupper(): ..."
from_object(d) == [key \in {k \in DOMAIN d : IsUpper(k)} |-> d[key]]

\* load_module(filename); a file that cannot be opened leaves the module empty
load_module(filename) ==
  from_object(IF Exists(filename) /\ fs[filename].kind = "file"
                THEN Exec(fs[filename].bindings, ModuleDict(filename))
                ELSE ModuleDict(filename))

\* (mutant) the existence test of the explicit proj_home left out
ProjHomeNeverMissing(proj_home) == FALSE

\* "if not os.path.exists(proj_home)"
ProjHomeMissing(proj_home) == ~Exists(proj_home)

\* (mutant) the append made without the membership test
AppendAlways(path, proj_home) == Append(path, proj_home)

\* "if proj_home not in sys.path: sys.path.append(proj_home)"
AppendOnce(path, proj_home) ==
  IF \E i \in 1..Len(path) : path[i] = proj_home THEN path ELSE Append(path, proj_home)

\* (mutant) the resolved home not stored
WithoutProjHome(proj_home) == <<>>

\* conf = {}; conf["PROJ_HOME"] = proj_home
WithProjHome(proj_home) == PROJ_HOME :> PyStr(proj_home)

\* conf_update_from_env(app, c): the map after the overrides
UpdatedFromEnv(app, c) ==
  [key \in DOMAIN c |->
     IF EnvNameFor(app, key) # <<>> THEN ReplaceValue(environ[EnvNameFor(app, key)])
     ELSE c[key]]

NoTrace == [opened |-> <<>>, modules |-> <<>>, before |-> <<>>, merged |-> <<>>,
            home |-> NoPath]

Raised(e, err, path, tr) ==
  [ret |-> NoRet, exc |-> e, stderr |-> err, sys_path |-> path, trace |-> tr]

\* load_config(proj_home, extra_frames, app) entered through lib frames of
\* rutils: the results, sys.path afterwards and what was done on the way
LoadConfig(proj_home, extra_frames, app, lib) ==
  LET explicit == proj_home # NoPath
      atEntry == [NoTrace EXCEPT !.before = sys_path]
      found == GetProjHome(Stack(lib), extra_frames)
  IN
  IF explicit /\ ProjHomeMissing(Abspath(proj_home))
    THEN Raised("Exception", <<>>, sys_path, atEntry)
  ELSE IF ~explicit /\ found.exc # "None"
    THEN Raised(found.exc, found.stderr, sys_path, atEntry)
  ELSE
    LET home == IF explicit THEN Abspath(proj_home) ELSE found.ret.path
        err == IF explicit THEN <<>> ELSE found.stderr
        files == <<Join(home, "config.py"), Join(home, "local_config.py")>>
        modules == <<load_module(files[1]), load_module(files[2])>>
        merged == Update(Update(WithProjHome(home), modules[1]), modules[2])
        tr == [opened |-> files, modules |-> modules, before |-> sys_path,
               merged |-> merged, home |-> home]
        service == IF SERVICE \in DOMAIN merged THEN merged[SERVICE] ELSE PyStr(<<>>)
    IN
    IF app = <<>> /\ service.type # "str"
      THEN Raised("AttributeError", err, AppendOnce(sys_path, home), tr)
    ELSE [ret |-> [kind |-> "map", path |-> NoPath,
                   map |-> UpdatedFromEnv(IF app # <<>> THEN app ELSE service.str, merged)],
          exc |-> "None", stderr |-> err, sys_path |-> AppendOnce(sys_path, home),
          trace |-> tr]

\* what the config files bind: an uppercase name (to two values), a name of
\* mixed case, and PROJ_HOME
Bindings ==
  { [name |-> <<"F">>, value |-> PyInt(1)], [name |-> <<"F">>, value |-> PyInt(2)],
    [name |-> <<"F", "f">>, value |-> PyInt(1)],
    [name |-> PROJ_HOME, value |-> PyStr(<<"/", "c">>)] }
BindingSeqs == UNION { [1..k -> Bindings] : k \in 0..MaxBindings }

\* an entry of sys.path that was there before rutils was imported
SitePackages == <<"/", "site">>

\* the project lives in /a: the marker and the config files are there
ProjectDir == DirAt(1)
CfgEnvirons == { <<>>, PROJ_HOME :> <<"/", "e">> }

CfgInit ==
  /\ \E base, local \in BindingSeqs :
       /\ Len(base) + Len(local) <= MaxBindings
       /\ fs = [p \in Dirs \cup {Join(ProjectDir, "requirements.txt")}
                      \cup (IF base # <<>> THEN {Join(ProjectDir, "config.py")} ELSE {})
                      \cup (IF local # <<>> THEN {Join(ProjectDir, "local_config.py")} ELSE {})
                  |-> IF p \in Dirs THEN Directory
                      ELSE IF p = Join(ProjectDir, "config.py") THEN File(base, "None")
                      ELSE IF p = Join(ProjectDir, "local_config.py") THEN File(local, "None")
                      ELSE File(<<>>, "None")]
  /\ cwd \in {Root, DirAt(2)}
  /\ callers = <<Join(DirAt(2), "m.py")>>
  /\ sys_path = <<SitePackages>>
  /\ cfgpc = 0
  /\ ret = NoRet
  /\ exc = "None"
  /\ stderr = <<>>
  /\ args = [fn |-> "None", proj_home |-> NoPath, extra_frames |-> 0,
             app_name |-> <<>>, via |-> "None"]
  /\ trace = NoTrace

\* the proj_home arguments: none, the project's directory, a relative path,
\* a directory that does not exist
ProjHomes == { NoPath, ProjectDir, <<"a">>, <<"/", "n">> }

\* load_config called directly (load_config(proj_home)), or from rutils for the
\* application "x": by setup_logging (line 240) or ProjectWorker.__init__
\* (line 338), which both pass extra_frames=1 and app_name
load_config(proj_home, via) ==
  /\ cfgpc < MaxCalls
  /\ LET extra_frames == IF via = "direct" THEN 0 ELSE 1
         app == IF via = "direct" THEN <<>> ELSE <<"x">>
         r == LoadConfig(proj_home, extra_frames, app, IF via = "direct" THEN 1 ELSE 2)
     IN /\ ret' = r.ret
        /\ exc' = r.exc
        /\ stderr' = r.stderr
        /\ sys_path' = r.sys_path
        /\ trace' = r.trace
        /\ args' = [fn |-> "load_config", proj_home |-> proj_home,
                    extra_frames |-> extra_frames, app_name |-> app, via |-> via]
  /\ cfgpc' = cfgpc + 1
  /\ UNCHANGED <<fs, cwd, callers>>

CfgNext ==
  \E proj_home \in ProjHomes, via \in {"direct", "rutils"} :
    load_config(proj_home, via)

(***************************************************************************)
(* Properties of load_module and load_config.                              *)
(***************************************************************************)
Loaded == cfgpc >= 1 /\ args.fn = "load_config" /\ exc = "None"

\* a name made of uppercase letters, digits and underscores, with a letter
EntirelyUppercase(key) ==
  /\ \A i \in 1..Len(key) :
       key[i] \in UppercaseLetters \cup {"_", "0", "1", "2", "3", "4", "5", "6", "7", "8", "9"}
  /\ \E i \in 1..Len(key) : key[i] \in UppercaseLetters

\* the bindings of the file at path p (none when there is no such file)
BindingsOf(p) == IF p \in DOMAIN fs THEN fs[p].bindings ELSE <<>>

\* C11: every key of the maps load_module returned and of the map load_config
\* returned is an entirely uppercase name; a top-level binding of a config file
\* is in load_module's map exactly when its name is uppercase, with the value
\* the file gave it, and nothing else is in that map.
C11_UppercaseKeys ==
  Loaded =>
    /\ \A key \in DOMAIN ret.map : EntirelyUppercase(key)
    /\ \A i \in 1..2 :
         LET content == BindingsOf(trace.opened[i])
             module == trace.modules[i]
         IN /\ \A key \in DOMAIN module :
                 EntirelyUppercase(key) /\ \E j \in 1..Len(content) : content[j].name = key
            /\ \A j \in 1..Len(content) :
                 /\ content[j].name \in DOMAIN module <=> EntirelyUppercase(content[j].name)
                 /\ EntirelyUppercase(content[j].name) => content[j].name \in DOMAIN ret.map
                 /\ ( /\ EntirelyUppercase(content[j].name)
                      /\ \A k \in (j + 1)..Len(content) : content[k].name # content[j].name )
                      => module[content[j].name] = content[j].value

\* one file binds an uppercase name and a name of mixed case
C11_Witness ==
  /\ Loaded
  /\ \E i \in 1..2 : \E j, k \in 1..Len(BindingsOf(trace.opened[i])) :
       /\ BindingsOf(trace.opened[i])[j].name = <<"F">>
       /\ BindingsOf(trace.opened[i])[k].name = <<"F", "f">>
  /\ <<"F">> \in DOMAIN ret.map /\ <<"F", "f">> \notin DOMAIN ret.map

\* the project home the last load_config call had to resolve: the absolute
\* form of the explicit proj_home, else the root discovered from the working
\* directory, else from the directory of the caller's source file
LoadCallerDir == SubSeq(callers[1], 1, Len(callers[1]) - 2)
ExpectedHome ==
  IF args.proj_home # NoPath
    THEN (IF args.proj_home[1] = "/" THEN args.proj_home
          ELSE (IF cwd = <<"/">> THEN cwd ELSE cwd \o <<"/">>) \o args.proj_home)
  ELSE IF Nearest(cwd, 2) # NoPath THEN Nearest(cwd, 2)
  ELSE IF Nearest(LoadCallerDir, 2) # NoPath THEN Nearest(LoadCallerDir, 2)
  ELSE LoadCallerDir

BaseFile == ExpectedHome \o <<"/", "config.py">>
LocalFile == ExpectedHome \o <<"/", "local_config.py">>

\* the file at p binds the uppercase name key; the value its last binding gives
Defines(p, key) ==
  EntirelyUppercase(key) /\ \E j \in 1..Len(BindingsOf(p)) : BindingsOf(p)[j].name = key
ValueIn(p, key) ==
  LET js == {j \in 1..Len(BindingsOf(p)) : BindingsOf(p)[j].name = key} IN
  BindingsOf(p)[CHOOSE j \in js : \A k \in js : k <= j].value

AllNames == {b.name : b \in Bindings}

\* C12: load_config opens config.py and then local_config.py of the project
\* home; before the environment overrides, a key both files define has the
\* value of local_config.py, a key only one defines has that file's value.
C12_LocalOverBase ==
  Loaded =>
    /\ trace.opened = <<BaseFile, LocalFile>>
    /\ \A key \in AllNames :
         /\ Defines(LocalFile, key) => trace.merged[key] = ValueIn(LocalFile, key)
         /\ (Defines(BaseFile, key) /\ ~Defines(LocalFile, key))
              => trace.merged[key] = ValueIn(BaseFile, key)

\* both files define F, with different values
C12_Witness ==
  /\ Loaded
  /\ Defines(BaseFile, <<"F">>) /\ Defines(LocalFile, <<"F">>)
  /\ ValueIn(BaseFile, <<"F">>) # ValueIn(LocalFile, <<"F">>)
  /\ trace.merged[<<"F">>] = ValueIn(LocalFile, <<"F">>)

\* no environment variable named PROJ_HOME or <APP>_PROJ_HOME
NoProjHomeInEnv ==
  \A name \in DOMAIN environ :
    Len(name) < Len(PROJ_HOME)
      \/ SubSeq(name, Len(name) - Len(PROJ_HOME) + 1, Len(name)) # PROJ_HOME

C14_MissingHomeRaises ==
  (cfgpc >= 1 /\ args.fn = "load_config" /\ args.proj_home # NoPath
     /\ ExpectedHome \notin DOMAIN fs)
    => /\ exc = "Exception"
       /\ ret = NoRet
       /\ trace.opened = <<>>
       /\ sys_path = trace.before

\* the second call names a missing directory, after a first call that loaded
C14_Witness ==
  /\ cfgpc = 2 /\ args.fn = "load_config" /\ args.proj_home = <<"/", "n">>
  /\ exc = "Exception" /\ Len(sys_path) = 2

\* C15: a load_config call appends the resolved project home to sys.path only
\* when it is not there yet, and never removes or reorders an entry; so no
\* home is ever appended twice.
C15_AppendedOnce ==
  [][ \/ sys_path' = sys_path
      \/ /\ exc' = "None"
         /\ sys_path' = Append(sys_path, trace'.home)
         /\ \A i \in 1..Len(sys_path) : sys_path[i] # trace'.home ]_vars

\* a later call that resolved the home an earlier call had appended
C15_Witness ==
  /\ cfgpc >= 2 /\ args.fn = "load_config" /\ exc = "None"
  /\ sys_path = trace.before /\ Len(sys_path) = 2
  /\ sys_path[1] = SitePackages /\ sys_path[2] = trace.home

(***************************************************************************)
(* setup_logging: the call itself.                                         *)
(***************************************************************************)
LogInit ==
  /\ handlers \in [LoggerNames -> {<<>>, <<ForeignHandler>>}]
  /\ level = [n \in LoggerNames |-> 0]
  /\ propagate = [n \in LoggerNames |-> TRUE]
  /\ logsDir \in BOOLEAN
  /\ setups = [n \in LoggerNames |-> 0]

LOGGING_LEVEL == <<"L", "O", "G", "G", "I", "N", "G", "_", "L", "E", "V", "E", "L">>

\* the project setup_logging is called in: /a holds the marker, maybe a
\* config.py that sets LOGGING_LEVEL, and maybe a logs directory already
LogProjectInit ==
  /\ \E configured \in BOOLEAN :
       fs = [p \in Dirs \cup {Join(ProjectDir, "requirements.txt")}
                    \cup (IF configured THEN {Join(ProjectDir, "config.py")} ELSE {})
                    \cup (IF logsDir THEN {Join(ProjectDir, "logs")} ELSE {})
              |-> IF p \in Dirs \/ p = Join(ProjectDir, "logs") THEN Directory
                  ELSE IF p = Join(ProjectDir, "config.py")
                    THEN File(<<[name |-> LOGGING_LEVEL, value |-> PyStr(<<"WARNING">>)]>>,
                              "None")
                  ELSE File(<<>>, "None")]
  /\ cwd = DirAt(2)
  /\ callers = <<Join(DirAt(2), "m.py")>>
  /\ sys_path = <<SitePackages>>
  /\ cfgpc = 0
  /\ ret = NoRet
  /\ exc = "None"
  /\ stderr = <<>>
  /\ args = [fn |-> "None", proj_home |-> NoPath, extra_frames |-> 0,
             app_name |-> <<>>, via |-> "None"]
  /\ trace = NoTrace

\* (mutant) the logs directory is never created
NoMakedirs(p) == fs

\* "if not os.path.exists(fn_path): os.makedirs(fn_path)": the file system
\* afterwards, with p and the directories above it
Makedirs(p) ==
  [q \in DOMAIN fs \cup {SubSeq(p, 1, 2 * k) : k \in 1..(Len(p) \div 2)} |->
     IF q \in DOMAIN fs THEN fs[q] ELSE Directory]

\* config.get("LOGGING_LEVEL", "INFO") of the map load_config returned ("None": not set)
ConfiguredLevel(config) ==
  IF LOGGING_LEVEL \in DOMAIN config THEN config[LOGGING_LEVEL].str[1] ELSE "None"

\* setup_logging(name_, level=lvl, proj_home=proj_home, attach_stdout=attach_stdout)
setup_logging(name, lvl, proj_home, attach_stdout) ==
  /\ setups[name] < MaxSetups
  /\ LET config == LoadConfig(proj_home, 1, name, 2)
         found == GetProjHome(Stack(1), 0)
         failure == IF lvl = "None" /\ config.exc # "None" THEN config.exc
                    ELSE IF proj_home = NoPath /\ found.exc # "None" THEN found.exc
                    ELSE "None"
         cfgLevel == IF lvl = "None" /\ config.exc = "None"
                       THEN ConfiguredLevel(config.ret.map) ELSE "None"
         home == IF proj_home # NoPath THEN Abspath(proj_home) ELSE found.ret.path
         fn_path == Join(home, "logs")
         fs1 == Makedirs(fn_path)
         \* the handler opens its file: the directory has to be there
         opened == failure = "None" /\ fn_path \in DOMAIN fs1
         rfh == [cls |-> FileHandlerClass, owner |-> name,
                 call |-> setups[name] + 1,
                 filename |-> fn_path \o <<"/">> \o SubSeq(LogFileName(name), 3,
                                                           Len(LogFileName(name))),
                 maxBytes |-> maxBytes, backupCount |-> backupCount,
                 mode |-> "a", encoding |-> "UTF-8"]
         stdout == [cls |-> "StreamHandler", owner |-> name,
                    call |-> setups[name] + 1, filename |-> <<"sys.stdout">>]
     IN /\ sys_path' = IF lvl = "None" THEN config.sys_path ELSE sys_path
        /\ stderr' = (IF lvl = "None" THEN config.stderr ELSE <<>>)
                       \o (IF proj_home = NoPath /\ (lvl # "None" \/ config.exc = "None")
                             THEN found.stderr ELSE <<>>)
        /\ exc' = IF opened THEN "None"
                  ELSE IF failure # "None" THEN failure ELSE "FileNotFoundError"
        /\ fs' = IF failure = "None" THEN fs1 ELSE fs
        /\ IF opened
             THEN /\ handlers' = [handlers EXCEPT ![name] =
                                    Append(ResetHandlers(@), rfh)
                                      \o (IF attach_stdout THEN <<stdout>> ELSE <<>>)]
                  /\ level' = [level EXCEPT ![name] = LevelNo(ResolveLevel(lvl, cfgLevel))]
                  /\ propagate' = [propagate EXCEPT ![name] = FALSE]
                  /\ logsDir' = TRUE
                  /\ setups' = [setups EXCEPT ![name] = @ + 1]
             ELSE UNCHANGED <<handlers, level, propagate, logsDir, setups>>
  /\ ret' = NoRet
  /\ args' = [fn |-> "setup_logging", proj_home |-> proj_home, extra_frames |-> 0,
              app_name |-> name, via |-> "direct"]
  /\ trace' = NoTrace
  /\ UNCHANGED <<cwd, callers, cfgpc>>

\* calls that leave the project home to be discovered
LogNext ==
  \E name \in LoggerNames, lvl \in {"None", "DEBUG"}, attach_stdout \in BOOLEAN :
    setup_logging(name, lvl, NoPath, attach_stdout)

\* the proj_home arguments: none, a directory of the project, one that does not exist
LogProjHomes == { NoPath, DirAt(2), <<"/", "n">> }

\* calls that name the level, with and without a proj_home
LogPathNext ==
  \E name \in LoggerNames, proj_home \in LogProjHomes :
    setup_logging(name, "DEBUG", proj_home, FALSE)

(***************************************************************************)
(* Properties of setup_logging.                                            *)
(***************************************************************************)
FileHandlersOf(name) ==
  {i \in 1..Len(handlers[name]) : IsFileHandler(handlers[name][i])}

\* C7: after one or more setup_logging calls for a logger name, with any mix
\* of attach_stdout, the logger has exactly one file handler, the one the
\* last call created; handlers never accumulate.
C7_OneFileHandler ==
  \A name \in LoggerNames :
    setups[name] >= 1 =>
      /\ Cardinality(FileHandlersOf(name)) = 1
      /\ \A i \in FileHandlersOf(name) :
           /\ handlers[name][i].owner = name
           /\ handlers[name][i].call = setups[name]
      /\ Len(handlers[name]) <= 2

\* a logger that had a handler before, set up twice, the last time with stdout
C7_Witness ==
  \E name \in LoggerNames :
    /\ setups[name] >= 2
    /\ Len(handlers[name]) = 2
    /\ handlers[name][1].call = setups[name]

\* the file handler of a logger that has one
TheFileHandler(name) == handlers[name][CHOOSE i \in FileHandlersOf(name) : TRUE]

\* what precedes the first ".log" in each logger name
StemOf(name) ==
  CASE name = <<"app">> -> <<"app">>
    [] name = <<"app", ".log">> -> <<"app">>
    [] name = <<"db">> -> <<"db">>

\* the handler the last setup_logging call built: threshold, backups, mode,
\* encoding, and its file fileName in the logs directory of the project home,
\* a directory that exists
C18_HandlerOn(fileName) ==
  args.fn = "setup_logging" =>
    /\ exc = "None"
    /\ LET h == TheFileHandler(args.app_name) IN
         /\ h.call = setups[args.app_name]
         /\ h.filename = ExpectedHome \o <<"/", "logs", "/">> \o fileName
         /\ h.maxBytes = 10 * 1024 * 1024 /\ h.backupCount = 10
         /\ h.mode = "a" /\ h.encoding = "UTF-8"
    /\ (ExpectedHome \o <<"/", "logs">>) \in DOMAIN fs

\* C18 (as stated): for every logger name the rotating file handler is built on
\* "<project_home>/logs/<name>.log" (10 MiB, 10 backups, append, UTF-8), the
\* logs directory created first when absent; two different names never map to
\* the same file.
C18_DistinctFiles ==
  /\ C18_HandlerOn(args.app_name \o <<".log">>)
  /\ \A n1, n2 \in LoggerNames :
       (n1 # n2 /\ setups[n1] >= 1 /\ setups[n2] >= 1)
         => TheFileHandler(n1).filename # TheFileHandler(n2).filename

\* C18 (amended): the handler is built on "<project_home>/logs/<stem>.log",
\* where <stem> is the part of the name before its first ".log" (the whole name
\* when it has none), with 10 MiB, 10 backups, append, UTF-8, the logs
\* directory created first when absent; two names map to the same file only
\* when they have the same stem (as "app" and "app.log" do).
C18_FileOfStem ==
  /\ C18_HandlerOn(StemOf(args.app_name) \o <<".log">>)
  /\ \A n1, n2 \in LoggerNames :
       (setups[n1] >= 1 /\ setups[n2] >= 1
          /\ TheFileHandler(n1).filename = TheFileHandler(n2).filename)
         => StemOf(n1) = StemOf(n2)

\* "app" and "app.log" set up under a proj_home whose logs directory was made
C18_Witness ==
  /\ args.fn = "setup_logging" /\ args.proj_home = <<"/", "n">> /\ exc = "None"
  /\ setups[<<"app">>] >= 1 /\ setups[<<"app", ".log">>] >= 1
  /\ TheFileHandler(<<"app">>).filename = TheFileHandler(<<"app", ".log">>).filename
  /\ TheFileHandler(<<"app">>).filename = <<"/", "n", "/", "logs", "/", "app", ".log">>
  /\ <<"/", "n", "/", "logs">> \in DOMAIN fs

(***************************************************************************)
(* JsonFormatter.format.  A log record carries its level name, its message *)
(* object, and exc_info; what the renderers beneath format do with it is   *)
(* given by the message object and by the terminal.                        *)
(***************************************************************************)
LevelNames == {"DEBUG", "INFO", "WARNING", "ERROR", "CRITICAL"}

\* JsonFormatter.colors: level name -> color ("None": no entry)
colors(levelname) ==
  CASE levelname = "DEBUG" -> "blue"
    [] levelname = "WARNING" -> "yellow"
    [] levelname = "ERROR" -> "red"
    [] levelname = "CRITICAL" -> "magenta"
    [] OTHER -> "None"

\* the message objects: a string; an object whose rendering raises TypeError
\* (its __str__ raises, or its arguments do not fit)
Messages == {"text", "unrepresentable"}

\* record.exc_info: None, the flag 1, or a (type, value, traceback) tuple
ExcInfos == {"None", "1", "tuple"}

\* what jsonlogger.JsonFormatter.format(self, record) does: the JSON text, or the
\* exception the rendering of the message raises
JsonFormat(rec) ==
  IF rec.msg = "unrepresentable"
    THEN [text |-> <<>>, exc |-> "TypeError"]
    ELSE [text |-> <<"{", rec.levelname, rec.msg, "}">>, exc |-> "None"]

\* "sys.exc_info() if record.exc_info == 1 else record.exc_info"
Einfo(rec) == IF rec.exc_info = "1" THEN "sys.exc_info()" ELSE rec.exc_info

\* "<Unrepresentable {0!r}: {1!r}>".format(type(msg), exc)
Unrepresentable(type, e) == <<"<Unrepresentable", type, ":", e, ">">>

Result(text, e, rec) == [ret |-> text, exc |-> e, record |-> rec]

\* JsonFormatter.format(record) of a formatter built with use_color, where the
\* color step does colorStep ("ok", or the exception it raises) and the plain
\* logging.Formatter.format of the placeholder does plainFormat
Format(rec, useColor, colorStep, plainFormat) ==
  LET msg == JsonFormat(rec)
      color == colors(rec.levelname)
      restored == [rec EXCEPT !.exc_info = Einfo(rec)]
  IN
  IF msg.exc # "None" THEN Result(<<>>, msg.exc, rec)
  ELSE IF color # "None" /\ useColor
    THEN (IF colorStep = "ok" THEN Result(<<color>> \o msg.text, "None", rec)
          ELSE IF colorStep = "UnicodeDecodeError" THEN Result(msg.text, "None", rec)
          ELSE IF plainFormat = "ok"
            THEN Result(Unrepresentable("str", colorStep), "None", restored)
          ELSE Result(<<>>, plainFormat, restored))
    ELSE Result(msg.text, "None", rec)

FmtInit ==
  /\ record \in [levelname : LevelNames, msg : Messages, exc_info : ExcInfos]
  /\ use_color \in BOOLEAN
  /\ record0 = record
  /\ fmtRet = <<>>
  /\ fmtExc = "None"
  /\ fmtStep = [color |-> "None", plain |-> "None"]
  /\ fmtpc = "start"

\* a handler calls formatter.format(record)
JsonFormatter_format(colorStep, plainFormat) ==
  /\ fmtpc = "start"
  /\ LET r == Format(record, use_color, colorStep, plainFormat) IN
       /\ fmtRet' = r.ret
       /\ fmtExc' = r.exc
       /\ record' = r.record
  /\ fmtStep' = [color |-> colorStep, plain |-> plainFormat]
  /\ fmtpc' = "done"
  /\ UNCHANGED <<use_color, record0>>

FmtNext ==
  \E colorStep \in {"ok", "UnicodeDecodeError", "TypeError"},
     plainFormat \in {"ok", "ValueError"} :
    JsonFormatter_format(colorStep, plainFormat)

(***************************************************************************)
(* Properties of JsonFormatter.format.                                     *)
(***************************************************************************)
\* the call met a failure: the message did not render, or the color step threw
RenderingFailed ==
  \/ record0.msg = "unrepresentable"
  \/ /\ record0.levelname \in {"DEBUG", "WARNING", "ERROR", "CRITICAL"} /\ use_color
     /\ fmtStep.color = "TypeError"

\* C19: format never lets a rendering failure out, for every level and with
\* color on or off: when rendering the message or the color step throws, it
\* returns a placeholder that embeds the offending type and the exception
\* text, and afterwards msg and exc_info of the record are what they were.
C19_NeverPropagates ==
  fmtpc = "done" =>
    /\ fmtExc = "None"
    /\ RenderingFailed =>
         /\ Len(fmtRet) = 5 /\ fmtRet[1] = "<Unrepresentable"
         /\ fmtRet[4] \in {"TypeError"}
    /\ record.msg = record0.msg
    /\ record.exc_info = record0.exc_info

(***************************************************************************)
(* get_date and date2solrstamp.  A timestamp text is a sequence of         *)
(* characters; a datetime is a record of its fields and its tzinfo.        *)
(***************************************************************************)
\* tzinfo of a datetime: none (naive), tzutc(), or a fixed offset in minutes
NoTz == [tz |-> "None", utcoffset |-> 0]
utc_zone == [tz |-> "tzutc", utcoffset |-> 0]
TzOffset(minutes) == [tz |-> "tzoffset", utcoffset |-> minutes]

Datetime(y, mo, d, h, mi, sec, us, tzinfo) ==
  [year |-> y, month |-> mo, day |-> d, hour |-> h, minute |-> mi, second |-> sec,
   microsecond |-> us, tzinfo |-> tzinfo]

\* the days of the calendar the timestamps fall in, in order
Calendar == << <<2009, 9, 2>>, <<2009, 9, 3>>, <<2009, 9, 4>>, <<2009, 9, 5>>,
               <<2009, 12, 30>>, <<2009, 12, 31>>, <<2010, 1, 1>>, <<2010, 1, 2>> >>

DayIndex(y, mo, d) == CHOOSE i \in 1..Len(Calendar) : Calendar[i] = <<y, mo, d>>

\* seconds since the first day of the calendar, in UTC
UtcSeconds(t) ==
  DayIndex(t.year, t.month, t.day) * 86400 + t.hour * 3600 + t.minute * 60 + t.second
    - t.tzinfo.utcoffset * 60

\* the instant a datetime denotes
Instant(t) == <<UtcSeconds(t), t.microsecond>>

\* datetime.replace(tzinfo=...)
ReplaceTzinfo(t, tzinfo) == [t EXCEPT !.tzinfo = tzinfo]

\* datetime.astimezone(utc_zone) of an aware datetime
Astimezone(t) ==
  LET total == UtcSeconds(t)
      cal == Calendar[total \div 86400]
      rest == total % 86400
  IN Datetime(cal[1], cal[2], cal[3], rest \div 3600, (rest % 3600) \div 60, rest % 60,
              t.microsecond, utc_zone)

DecimalDigits == <<"0", "1", "2", "3", "4", "5", "6", "7", "8", "9">>
IsDigit(c) == \E i \in 1..10 : DecimalDigits[i] = c
DigitValue(c) == (CHOOSE i \in 1..10 : DecimalDigits[i] = c) - 1

RECURSIVE Number(_)
\* int() of a sequence of digits
Number(ds) ==
  IF ds = <<>> THEN 0
  ELSE Number(SubSeq(ds, 1, Len(ds) - 1)) * 10 + DigitValue(ds[Len(ds)])

RECURSIVE ZeroPadded(_, _)
\* n written in w digits, zero-padded (%m, %d, %H, %M, %S, %f and %Y of strftime)
ZeroPadded(n, w) ==
  IF w = 0 THEN <<>> ELSE ZeroPadded(n \div 10, w - 1) \o <<DecimalDigits[(n % 10) + 1]>>

RECURSIVE Power10(_)
Power10(k) == IF k = 0 THEN 1 ELSE 10 * Power10(k - 1)

RECURSIVE DigitsFrom(_, _)
\* the run of digits of text from position i on
DigitsFrom(text, i) ==
  IF i > Len(text) \/ ~IsDigit(text[i]) THEN <<>>
  ELSE <<text[i]>> \o DigitsFrom(text, i + 1)

\* the zone designator of a text: nothing, "Z", or "+hh:mm" / "-hh:mm"
ParseZone(z) ==
  IF z = <<>> THEN NoTz
  ELSE IF z = <<"Z">> THEN utc_zone
  ELSE LET minutes == Number(SubSeq(z, 2, 3)) * 60 + Number(SubSeq(z, 5, 6))
       IN TzOffset(IF z[1] = "-" THEN 0 - minutes ELSE minutes)

\* dateutil's parser.parse of "YYYY-MM-DDTHH:MM:SS[.f+][zone]"
Parse(text) ==
  LET frac == IF Len(text) >= 20 /\ text[20] = "." THEN DigitsFrom(text, 21) ELSE <<>>
      used == IF frac = <<>> THEN 19 ELSE 20 + Len(frac)
      f6 == SubSeq(frac, 1, IF Len(frac) < 6 THEN Len(frac) ELSE 6)
  IN Datetime(Number(SubSeq(text, 1, 4)), Number(SubSeq(text, 6, 7)),
              Number(SubSeq(text, 9, 10)), Number(SubSeq(text, 12, 13)),
              Number(SubSeq(text, 15, 16)), Number(SubSeq(text, 18, 19)),
              Number(f6) * Power10(6 - Len(f6)),
              ParseZone(SubSeq(text, used + 1, Len(text))))

\* the argument of get_date: None, a str, or a datetime
NoText == <<>>
NoDatetime == Datetime(0, 0, 0, 0, 0, 0, 0, NoTz)
ArgNone == [type |-> "NoneType", text |-> NoText, value |-> NoDatetime]
ArgStr(text) == [type |-> "str", text |-> text, value |-> NoDatetime]
ArgDatetime(t) == [type |-> "datetime", text |-> NoText, value |-> t]

\* get_date(timestr), with utcnow the reading of the clock
GetDateNaive(arg, utcnow) ==
  IF arg.type = "NoneType" THEN ReplaceTzinfo(utcnow, utc_zone)
  ELSE ReplaceTzinfo(IF arg.type = "datetime" THEN arg.value ELSE Parse(arg.text), utc_zone)
GetDate(arg, utcnow) ==
  IF arg.type = "NoneType" THEN ReplaceTzinfo(utcnow, utc_zone)
  ELSE LET d == IF arg.type = "datetime" THEN arg.value ELSE Parse(arg.text)
       IN IF d.tzinfo # NoTz THEN Astimezone(d) ELSE ReplaceTzinfo(d, utc_zone)

\* t.strftime(TIMESTAMP_FMT), TIMESTAMP_FMT = "%Y-%m-%dT%H:%M:%S.%fZ"
Date2Solrstamp(t) ==
  ZeroPadded(t.year, 4) \o <<"-">> \o ZeroPadded(t.month, 2) \o <<"-">>
    \o ZeroPadded(t.day, 2) \o <<"T">> \o ZeroPadded(t.hour, 2) \o <<":">>
    \o ZeroPadded(t.minute, 2) \o <<":">> \o ZeroPadded(t.second, 2) \o <<".">>
    \o ZeroPadded(t.microsecond, 6) \o <<"Z">>

\* the texts handed to get_date
DateTexts == { <<"2", "0", "0", "9", "-", "0", "9", "-", "0", "3">>,
               <<"2", "0", "0", "9", "-", "0", "9", "-", "0", "4">>,
               <<"2", "0", "0", "9", "-", "1", "2", "-", "3", "1">>,
               <<"2", "0", "1", "0", "-", "0", "1", "-", "0", "1">> }
TimeTexts == { <<"0", "1", ":", "5", "6", ":", "3", "5">>,
               <<"2", "0", ":", "5", "6", ":", "3", "5">>,
               <<"0", "0", ":", "0", "0", ":", "0", "0">>,
               <<"2", "3", ":", "5", "9", ":", "5", "9">> }
FractionTexts == { <<".", "4", "5", "0", "6", "8", "6">>,
                   <<".", "0", "0", "0", "0", "0", "5">>,
                   <<".", "4", "5">>,
                   <<>> }
ZoneTexts == { <<"Z">>, <<"-", "0", "5", ":", "0", "0">>,
               <<"+", "0", "5", ":", "3", "0">>, <<>> }
Timestamps ==
  { d \o <<"T">> \o t \o f \o z :
      d \in DateTexts, t \in TimeTexts, f \in FractionTexts, z \in ZoneTexts }

\* the datetime objects handed to get_date, and the readings of the clock
Datetimes ==
  { Datetime(2009, 12, 31, h, 30, 0, 7, tzinfo) :
      h \in {0, 23}, tzinfo \in {NoTz, utc_zone, TzOffset(0 - 300), TzOffset(330)} }
Clock == { Datetime(2010, 1, 1, 0, 0, 0, us, NoTz) : us \in {0, 999999} }

DateInit ==
  /\ timestr \in {ArgNone} \cup {ArgStr(text) : text \in Timestamps}
                   \cup {ArgDatetime(t) : t \in Datetimes}
  /\ date = NoDatetime
  /\ stamp = NoText
  /\ datepc = "start"

\* d = get_date(timestr)
get_date(utcnow) ==
  /\ datepc = "start"
  /\ date' = GetDate(timestr, utcnow)
  /\ datepc' = "parsed"
  /\ UNCHANGED <<timestr, stamp>>

\* date2solrstamp(d)
date2solrstamp ==
  /\ datepc = "parsed"
  /\ stamp' = Date2Solrstamp(date)
  /\ datepc' = "stamped"
  /\ UNCHANGED <<timestr, date>>

DateNext ==
  \/ \E utcnow \in Clock : get_date(utcnow)
  \/ date2solrstamp

(***************************************************************************)
(* Properties of get_date and date2solrstamp.                              *)
(***************************************************************************)
\* the datetime the argument stands for before any conversion
Given == IF timestr.type = "datetime" THEN timestr.value ELSE Parse(timestr.text)

\* a text in the stamp format: "YYYY-MM-DDTHH:MM:SS.ffffffZ"
IsStamp(text) == Len(text) = 27 /\ text[20] = "." /\ text[27] = "Z"

SameWallClock(a, b) ==
  /\ a.year = b.year /\ a.month = b.month /\ a.day = b.day
  /\ a.hour = b.hour /\ a.minute = b.minute /\ a.second = b.second
  /\ a.microsecond = b.microsecond

\* C20: get_date always returns a datetime tagged UTC; an input with an
\* offset gives the same instant in UTC, an input without one keeps its
\* wall-clock fields; and date2solrstamp(get_date(s)) is s again for every s
\* in the "...Z" stamp format.
C20_AlwaysUtc ==
  /\ datepc # "start" => date.tzinfo = utc_zone
  /\ (datepc # "start" /\ timestr.type # "NoneType") =>
       IF Given.tzinfo # NoTz THEN Instant(date) = Instant(Given)
       ELSE SameWallClock(date, Given)
  /\ (datepc = "stamped" /\ timestr.type = "str" /\ IsStamp(timestr.text)) =>
       stamp = timestr.text

\* a text with an offset was converted across midnight into the next year and stamped
C20_Witness ==
  /\ datepc = "stamped"
  /\ timestr.type = "str"
  /\ Given.tzinfo = TzOffset(0 - 300)
  /\ Given.year = 2009 /\ date.year = 2010
  /\ Instant(date) = Instant(Given)
  /\ stamp[27] = "Z"

DbIdle == SQLALCHEMY_URL = "None" /\ DbInit
LogIdle == logsDir = FALSE /\ handlers = [n \in LoggerNames |-> <<>>] /\ LogInit
WriteIdle == WriteInit
EnvIdle == app_name = <<>> /\ environ = <<>> /\ EnvInit
FmtIdle ==
  /\ use_color = FALSE
  /\ record = [levelname |-> "INFO", msg |-> "text", exc_info |-> "None"]
  /\ FmtInit
DateIdle == timestr = ArgNone /\ DateInit
CfgIdle == cwd = Root /\ callers = <<NoPath>> /\ fs = [p \in Dirs |-> Directory] /\ HomeInit

Init == LogIdle /\ WriteIdle /\ EnvIdle /\ CfgIdle /\ FmtIdle /\ DateIdle /\ DbInit
Next == DbNext /\ UNCHANGED <<logVars, writeVars, envVars, cfgVars, fmtVars, dateVars>>
\* threads running db_session scopes on one ProjectWorker
Spec == Init /\ [][Next]_vars

\* setup_logging called again and again in one process
InitLog == DbIdle /\ WriteIdle /\ EnvIdle /\ FmtIdle /\ DateIdle /\ LogInit /\ LogProjectInit
NextLog == LogNext /\ UNCHANGED <<dbVars, writeVars, envVars, fmtVars, dateVars>>
SpecLog == InitLog /\ [][NextLog]_vars

\* processes emitting records to the one log file
InitWrite == DbIdle /\ LogIdle /\ EnvIdle /\ CfgIdle /\ FmtIdle /\ DateIdle /\ WriteInit
NextWrite == WriteNext /\ UNCHANGED <<dbVars, logVars, envVars, cfgVars, fmtVars, dateVars>>
SpecWrite == InitWrite /\ [][NextWrite]_vars

\* conf_update_from_env applied to a config map under an environment
InitEnv == DbIdle /\ LogIdle /\ WriteIdle /\ CfgIdle /\ FmtIdle /\ DateIdle /\ EnvInit
NextEnv == EnvNext /\ UNCHANGED <<dbVars, logVars, writeVars, cfgVars, fmtVars, dateVars>>
SpecEnv == InitEnv /\ [][NextEnv]_vars

\* root discovery run in a directory tree with marker files
InitHome == DbIdle /\ LogIdle /\ WriteIdle /\ EnvIdle /\ FmtIdle /\ DateIdle /\ HomeInit
NextHome == HomeNext /\ UNCHANGED <<dbVars, logVars, writeVars, envVars, fmtVars, dateVars>>
SpecHome == InitHome /\ [][NextHome]_vars

\* load_config called again and again in one process
InitCfg == DbIdle /\ LogIdle /\ WriteIdle /\ FmtIdle /\ DateIdle
             /\ app_name = <<>> /\ environ \in CfgEnvirons /\ EnvInit /\ CfgInit
NextCfg == CfgNext /\ UNCHANGED <<dbVars, logVars, writeVars, envVars, fmtVars, dateVars>>
SpecCfg == InitCfg /\ [][NextCfg]_vars

\* setup_logging called for several names and project homes
NextLogPath == LogPathNext /\ UNCHANGED <<dbVars, writeVars, envVars, fmtVars, dateVars>>
SpecLogPath == InitLog /\ [][NextLogPath]_vars

\* records of every level formatted with color on and off
InitFmt == DbIdle /\ LogIdle /\ WriteIdle /\ EnvIdle /\ CfgIdle /\ DateIdle /\ FmtInit
NextFmt == FmtNext /\ UNCHANGED <<dbVars, logVars, writeVars, envVars, cfgVars, dateVars>>
SpecFmt == InitFmt /\ [][NextFmt]_vars

\* timestamps parsed by get_date and written back by date2solrstamp
InitDate == DbIdle /\ LogIdle /\ WriteIdle /\ EnvIdle /\ CfgIdle /\ FmtIdle /\ DateInit
NextDate == DateNext /\ UNCHANGED <<dbVars, logVars, writeVars, envVars, cfgVars, fmtVars>>
SpecDate == InitDate /\ [][NextDate]_vars

====
